---- MODULE Spec2Model ----
(***************************************************************************)
(* Model of the BASEER API service (src/main.py): the startup hook, the    *)
(* global rate-limiter dependency, the time_request middleware, the three  *)
(* routes and the image validator.                                         *)
(*                                                                         *)
(* A request is handled in one atomic step: time_request wraps call_next,  *)
(* which runs the rate limiter and then the route handler. The limiter's   *)
(* counters live in the key-value store, outside the service: whether a    *)
(* request is over its limit is an input of the step.                      *)
(***************************************************************************)
EXTENDS Integers, FiniteSets, Sequences, TLC

(* ---------------------------------------------------------------------- *)
(* Program constants                                                       *)
(* ---------------------------------------------------------------------- *)
MAX_IMAGE_WIDTH == 1024
MAX_IMAGE_HEIGHT == 1024
MIN_IMAGE_WIDTH == 256
MIN_IMAGE_HEIGHT == 256

\* The allow-list of the real-inference path of predict.
AllowedContentTypes == {"image/jpeg", "image/png"}

\* The literal captions of the dummy predictor, in source order. The source
\* strings are Arabic; each is written here as its English gloss.
dummy_captions ==
    << "a horse running on the beach",
       "two men wearing shemagh shaking hands",
       "a tent in the middle of the sand with cars around it",
       "scenic views of the Alps in Switzerland",
       "the wonderful sunset in the Dubai desert",
       "the red strawberry flower in a green field",
       "a photograph of the Sheikh Zayed mosque in Abu Dhabi",
       "polar penguins south of the South Pole",
       "scenic views of the natural waterfalls in Victoria",
       "sunset on the Red Sea",
       "a photograph of the Alhambra palace in Granada",
       "red apples and red guava on a wooden table",
       "spring of Syrian Sweida and green olive trees" >>

(* ---------------------------------------------------------------------- *)
(* Bounds of the model                                                     *)
(* ---------------------------------------------------------------------- *)
\* Image dimensions are the two bounds and the sizes Margin pixels outside
\* them.
Margin == 1

Dims ==
    {MIN_IMAGE_WIDTH - Margin, MIN_IMAGE_WIDTH,
     MAX_IMAGE_WIDTH, MAX_IMAGE_WIDTH + Margin}

\* The rate limiter's identifiers (client addresses).
Clients == {"10.0.0.1"}

(* ---------------------------------------------------------------------- *)
(* Inputs                                                                  *)
(* ---------------------------------------------------------------------- *)
\* file = None (no file part in the form).
NoFile == [present |-> FALSE, content_type |-> "", decodable |-> FALSE,
           width |-> 0, height |-> 0]

\* Bytes on which Image.open or image.verify raises.
UndecodableUploads ==
    [present : {TRUE}, content_type : AllowedContentTypes \cup {"text/plain"},
     decodable : {FALSE}, width : {0}, height : {0}]

\* Bytes that open and verify as an image of the given size.
DecodableUploads ==
    [present : {TRUE}, content_type : AllowedContentTypes \cup {"text/plain"},
     decodable : {TRUE}, width : Dims, height : Dims]

Uploads == {NoFile} \cup UndecodableUploads \cup DecodableUploads

\* The is_dummy form field as sent: missing, or a boolean literal.
IsDummyFields == {"unset", "false", "true"}

\* Form(False) followed by bool(is_dummy).
FormBool(field) == field = "true"

(* ---------------------------------------------------------------------- *)
(* Image validator                                                         *)
(* ---------------------------------------------------------------------- *)
\* The value True returned by image_validation.
ValidationOk == "True"
CorruptedMessage == "The image seems corrupted or unsupported."
OversizeMessage ==
    "The given image exceeds the allowed size (" \o ToString(MAX_IMAGE_HEIGHT)
        \o "×" \o ToString(MAX_IMAGE_WIDTH) \o ")."
UndersizeMessage ==
    "The given image is smaller than the allowed size ("
        \o ToString(MIN_IMAGE_HEIGHT) \o "×" \o ToString(MIN_IMAGE_WIDTH) \o ")."

\* Mutant: the undecodable case is let through.
image_validation_no_decode_check(file) ==
    IF file.present /\ file.decodable
           /\ file.width > MAX_IMAGE_WIDTH /\ file.height > MAX_IMAGE_HEIGHT
    THEN OversizeMessage
    ELSE IF file.present /\ file.decodable
           /\ (file.width < MIN_IMAGE_WIDTH \/ file.height < MIN_IMAGE_HEIGHT)
    THEN UndersizeMessage
    ELSE ValidationOk

\* Mutant: the bounds are exclusive.
image_validation_exclusive(file) ==
    IF ~file.present \/ ~file.decodable
    THEN CorruptedMessage
    ELSE IF file.width >= MAX_IMAGE_WIDTH /\ file.height >= MAX_IMAGE_HEIGHT
    THEN OversizeMessage
    ELSE IF file.width <= MIN_IMAGE_WIDTH \/ file.height <= MIN_IMAGE_HEIGHT
    THEN UndersizeMessage
    ELSE ValidationOk

\* Mutant: the oversize test is a disjunction.
image_validation_max_either(file) ==
    IF ~file.present \/ ~file.decodable
    THEN CorruptedMessage
    ELSE IF file.width > MAX_IMAGE_WIDTH \/ file.height > MAX_IMAGE_HEIGHT
    THEN OversizeMessage
    ELSE IF file.width < MIN_IMAGE_WIDTH \/ file.height < MIN_IMAGE_HEIGHT
    THEN UndersizeMessage
    ELSE ValidationOk

\* image_validation(file): file.file raises on None and Image.open / verify
\* raise on undecodable bytes, all inside the bare except.
image_validation(file) ==
    IF ~file.present \/ ~file.decodable
    THEN CorruptedMessage
    ELSE IF file.width > MAX_IMAGE_WIDTH /\ file.height > MAX_IMAGE_HEIGHT
    THEN OversizeMessage
    ELSE IF file.width < MIN_IMAGE_WIDTH \/ file.height < MIN_IMAGE_HEIGHT
    THEN UndersizeMessage
    ELSE ValidationOk

(* ---------------------------------------------------------------------- *)
(* Route handlers                                                          *)
(* ---------------------------------------------------------------------- *)
\* Marks a validator that was not called by the handler.
NotRun == "not run"

\* What a handler did: how it ended ("return_dict", "return_HTTPException",
\* "raise_HTTPException", "raise_AttributeError"), the fields of the value it
\* returned or raised, and image_val, the validator's return value when the
\* handler called it.
Outcome(how, status_code, detail, prediction, validation, val) ==
    [how |-> how, status_code |-> status_code, detail |-> detail,
     prediction |-> prediction, image_validation |-> validation,
     image_val |-> val]

\* Mutant: the content type is checked before the dummy branch.
predict_type_check_first(file, is_dummy, choice) ==
    IF ~file.present
    THEN Outcome("raise_AttributeError", 0, "", "", "", NotRun)
    ELSE IF file.content_type \notin AllowedContentTypes
    THEN Outcome("raise_HTTPException", 415, "Unsupported file given.",
                 "", "", NotRun)
    ELSE IF FormBool(is_dummy)
    THEN Outcome("return_dict", 0, "", dummy_captions[choice],
                 image_validation(file), image_validation(file))
    ELSE IF image_validation(file) # ValidationOk
    THEN Outcome("raise_HTTPException", 415, image_validation(file),
                 "", "", image_validation(file))
    ELSE Outcome("return_HTTPException", 501,
                 "This feature is under development.", "", "",
                 image_validation(file))

\* Mutant: the validator runs before the content-type check.
predict_validate_first(file, is_dummy, choice) ==
    IF FormBool(is_dummy)
    THEN Outcome("return_dict", 0, "", dummy_captions[choice],
                 image_validation(file), image_validation(file))
    ELSE IF image_validation(file) # ValidationOk
    THEN Outcome("raise_HTTPException", 415, image_validation(file),
                 "", "", image_validation(file))
    ELSE IF ~file.present
    THEN Outcome("raise_AttributeError", 0, "", "", "", image_validation(file))
    ELSE IF file.content_type \notin AllowedContentTypes
    THEN Outcome("raise_HTTPException", 415, "Unsupported file given.",
                 "", "", image_validation(file))
    ELSE Outcome("return_HTTPException", 501,
                 "This feature is under development.", "", "",
                 image_validation(file))

\* predict(file, is_dummy); choice is the index random.choice draws.
predict(file, is_dummy, choice) ==
    IF FormBool(is_dummy)
    THEN Outcome("return_dict", 0, "", dummy_captions[choice],
                 image_validation(file), image_validation(file))
    ELSE IF ~file.present
    \* file is None: file.content_type raises AttributeError
    THEN Outcome("raise_AttributeError", 0, "", "", "", NotRun)
    ELSE IF file.content_type \notin AllowedContentTypes
    THEN Outcome("raise_HTTPException", 415, "Unsupported file given.",
                 "", "", NotRun)
    ELSE IF image_validation(file) # ValidationOk
    THEN Outcome("raise_HTTPException", 415, image_validation(file),
                 "", "", image_validation(file))
    \* the HTTPException is returned, not raised
    ELSE Outcome("return_HTTPException", 501,
                 "This feature is under development.", "", "",
                 image_validation(file))

\* root(): the welcome message.
root ==
    Outcome("return_dict", 0, "", "", "", NotRun)

\* specs(): the advertised limits.
specs ==
    [max_width |-> MAX_IMAGE_WIDTH, max_height |-> MAX_IMAGE_HEIGHT,
     accepted_formats |-> <<"jpg", "png">>]

\* The routes registered on the app.
Routes == {"GET /", "GET /specs", "POST /predict"}

(* ---------------------------------------------------------------------- *)
(* State                                                                   *)
(* ---------------------------------------------------------------------- *)
VARIABLES
    phase,           \* "starting", "serving" or "failed" (startup raised)
    redisReachable,  \* whether the key-value store answers right now
    limiterInit,     \* FastAPILimiter.init has completed
    cacheInit,       \* FastAPICache.init has completed
    startups,        \* number of times the startup hook has run
    req,             \* the last request received
    resp             \* the response sent for it
vars ==
    <<phase, redisReachable, limiterInit, cacheInit, startups, req, resp>>

NoRequest ==
    [client |-> "", route |-> "", file |-> NoFile, is_dummy |-> "unset"]
NoResponse ==
    [status |-> 0, body |-> "", detail |-> "", prediction |-> "",
     image_validation |-> "", image_val |-> NotRun, handler |-> "",
     headers |-> {}]

Init ==
    /\ phase = "starting"
    /\ redisReachable \in BOOLEAN
    /\ limiterInit = FALSE
    /\ cacheInit = FALSE
    /\ startups = 0
    /\ req = NoRequest
    /\ resp = NoResponse

(* ---------------------------------------------------------------------- *)
(* Startup and the key-value store                                         *)
(* ---------------------------------------------------------------------- *)
\* Mutant: the connection error is swallowed and the service starts anyway.
StartupSwallowsError ==
    /\ phase = "starting"
    /\ startups' = startups + 1
    /\ limiterInit' = redisReachable
    /\ cacheInit' = TRUE
    /\ phase' = "serving"
    /\ UNCHANGED <<redisReachable, req, resp>>

\* startup(): FastAPILimiter.init contacts the store; on any exception the
\* hook raises, which aborts the application's startup.
Startup ==
    /\ phase = "starting"
    /\ startups' = startups + 1
    /\ IF redisReachable
       THEN /\ limiterInit' = TRUE
            /\ cacheInit' = TRUE
            /\ phase' = "serving"
       ELSE /\ phase' = "failed"
            /\ UNCHANGED <<limiterInit, cacheInit>>
    /\ UNCHANGED <<redisReachable, req, resp>>

\* The store, an external process, goes down or comes back.
StoreChange ==
    /\ redisReachable' = ~redisReachable
    /\ UNCHANGED <<phase, limiterInit, cacheInit, startups, req, resp>>

(* ---------------------------------------------------------------------- *)
(* The request pipeline                                                    *)
(* ---------------------------------------------------------------------- *)
Response(status, body, o, handler) ==
    [status |-> status, body |-> body, detail |-> o.detail,
     prediction |-> o.prediction, image_validation |-> o.image_validation,
     image_val |-> o.image_val, handler |-> handler, headers |-> {}]

\* The route's endpoint function applied to the request.
Endpoint(request, choice) ==
    CASE request.route = "GET /" -> root
      [] request.route = "GET /specs" -> Outcome("return_dict", 0, "", "", "", NotRun)
      [] request.route = "POST /predict" ->
            predict(request.file, request.is_dummy, choice)

EndpointName(request) ==
    CASE request.route = "GET /" -> "root"
      [] request.route = "GET /specs" -> "specs"
      [] request.route = "POST /predict" -> "predict"

\* RateLimiter(times=1, seconds=5) on the request's key: "error" when the
\* store does not answer, else "reject" when over_limit (the key has used up
\* its one request of the 5-second window) and "pass" when not.
RateLimiter(over_limit) ==
    IF ~redisReachable THEN "error"
    ELSE IF over_limit THEN "reject"
    ELSE "pass"

\* How the framework turns the endpoint's outcome into a response: a returned
\* value is serialised with status 200 (an exception object by its
\* attributes), a raised HTTPException becomes its status and detail, and any
\* other exception propagates.
Serialise(o, handler) ==
    CASE o.how = "return_dict" ->
            [raised |-> FALSE,
             response |-> Response(200,
                 CASE handler = "root" -> "welcome"
                   [] handler = "specs" -> "specs"
                   [] handler = "predict" -> "prediction",
                 o, handler)]
      [] o.how = "return_HTTPException" ->
            [raised |-> FALSE,
             response |-> Response(200, "exception attributes", o, handler)]
      [] o.how = "raise_HTTPException" ->
            [raised |-> FALSE,
             response |-> Response(o.status_code, "detail", o, handler)]
      [] o.how = "raise_AttributeError" ->
            [raised |-> TRUE,
             response |-> Response(500, "Internal Server Error", o, handler)]

\* call_next(request): routing, the app-wide dependency, the endpoint. The
\* response of a raised result is the one the server's error handler sends
\* once the exception has left the middleware.
call_next(request, choice, over_limit) ==
    IF request.route \notin Routes
    THEN [raised |-> FALSE,
          response |-> Response(404, "detail",
              Outcome("", 404, "Not Found", "", "", NotRun), "")]
    ELSE IF RateLimiter(over_limit) = "error"
    THEN [raised |-> TRUE,
          response |-> Response(500, "Internal Server Error",
              Outcome("", 0, "", "", "", NotRun), "")]
    ELSE IF RateLimiter(over_limit) = "reject"
    THEN [raised |-> FALSE,
          response |-> Response(429, "detail",
              Outcome("", 429, "Too Many Requests", "", "", NotRun), "")]
    ELSE Serialise(Endpoint(request, choice), EndpointName(request))

\* time_request(request, call_next): the header is set on the response that
\* call_next returns; when call_next raises, the lines after it do not run.
time_request(request, choice, over_limit) ==
    LET result == call_next(request, choice, over_limit)
    IN  IF result.raised
        THEN result.response
        ELSE [result.response EXCEPT !.headers = @ \cup {"Server-Timing"}]

\* The request as the middleware receives it.
Request(client, route, file, is_dummy) ==
    [client |-> client, route |-> route, file |-> file, is_dummy |-> is_dummy]

\* The service receives a request and answers it.
Handle(client, route, file, is_dummy, choice) ==
    /\ phase = "serving"
    /\ \E over_limit \in BOOLEAN :
          /\ req' = Request(client, route, file, is_dummy)
          /\ resp' = time_request(Request(client, route, file, is_dummy),
                                  choice, over_limit)
    /\ UNCHANGED <<phase, redisReachable, limiterInit, cacheInit, startups>>

GetRoot ==
    \E c \in Clients : Handle(c, "GET /", NoFile, "unset", 1)

GetSpecs ==
    \E c \in Clients : Handle(c, "GET /specs", NoFile, "unset", 1)

\* The indices random.choice can draw; it is called in dummy mode only.
Choices(is_dummy) ==
    IF FormBool(is_dummy) THEN 1 .. Len(dummy_captions) ELSE {1}

PostPredict ==
    \E c \in Clients, f \in Uploads, d \in IsDummyFields :
      \E choice \in Choices(d) :
        Handle(c, "POST /predict", f, d, choice)

\* A request to a path no route matches.
GetUnknown ==
    \E c \in Clients : Handle(c, "GET /missing", NoFile, "unset", 1)

Next ==
    \/ Startup
    \/ StoreChange
    \/ GetRoot
    \/ GetSpecs
    \/ PostPredict
    \/ GetUnknown

Spec == Init /\ [][Next]_vars

TypeOK ==
    /\ phase \in {"starting", "serving", "failed"}
    /\ redisReachable \in BOOLEAN
    /\ limiterInit \in BOOLEAN
    /\ cacheInit \in BOOLEAN
    /\ startups \in 0 .. 1
    /\ resp.status \in {0, 200, 404, 415, 429, 500}

(* ---------------------------------------------------------------------- *)
(* Properties                                                              *)
(* ---------------------------------------------------------------------- *)
\* The predict endpoint ran for the last request.
PredictRan == resp.handler = "predict"
DummyMode == FormBool(req.is_dummy)
AllowedType == req.file.present /\ req.file.content_type \in AllowedContentTypes
\* The validator was called on a decodable image.
ValidatedImage ==
    PredictRan /\ resp.image_val # NotRun /\ req.file.present /\ req.file.decodable
Captions == {dummy_captions[i] : i \in 1 .. Len(dummy_captions)}

\* C1: a non-dummy POST /predict with an allowed content type whose upload
\* passes the validator is answered with status 501 and never with a success
\* status or a prediction payload.
C1_RealModeNotImplemented ==
    (PredictRan /\ ~DummyMode /\ AllowedType
        /\ image_validation(req.file) = ValidationOk)
    => (resp.status = 501 /\ resp.body # "prediction")

\* C2: every POST /predict that reaches the endpoint ends in a JSON
\* prediction, a structured 415 error or a structured 501 error, never in an
\* unhandled exception.
C2_DocumentedOutcomes ==
    PredictRan =>
        \/ resp.status = 200 /\ resp.body = "prediction"
        \/ resp.status = 415 /\ resp.body = "detail"
        \/ resp.status = 501 /\ resp.body = "detail"

\* C3: in dummy mode, whatever the upload, the response is a success whose
\* prediction is one of the 13 captions and whose image_validation is the
\* validator's verdict on the upload; it is never 415 or 501.
C3_DummyAlwaysCaption ==
    (PredictRan /\ DummyMode) =>
        /\ resp.status = 200
        /\ resp.body = "prediction"
        /\ resp.prediction \in Captions
        /\ Cardinality(Captions) = 13
        /\ resp.image_validation = image_validation(req.file)
        /\ resp.image_val = resp.image_validation

C3_Witness ==
    /\ PredictRan /\ DummyMode /\ ~req.file.present
    /\ resp.status = 200
    /\ resp.prediction = dummy_captions[13]
    /\ resp.image_validation = CorruptedMessage

\* C4: a non-dummy POST /predict whose upload has a content type outside the
\* allow-list is answered 415 "Unsupported file given." and the validator is
\* not run.
C4_TypeRejectedBeforeValidation ==
    (PredictRan /\ ~DummyMode /\ req.file.present
        /\ req.file.content_type \notin AllowedContentTypes)
    => /\ resp.status = 415
       /\ resp.body = "detail"
       /\ resp.detail = "Unsupported file given."
       /\ resp.image_val = NotRun

C4_Witness ==
    /\ PredictRan /\ req.is_dummy = "unset"
    /\ req.file.present /\ req.file.content_type = "text/plain"
    /\ ~req.file.decodable
    /\ resp.status = 415

\* C5: on an absent or undecodable upload the validator returns the
\* corruption message, never success; non-dummy with an allowed content type
\* such an upload is answered 415 with that message.
C5_UndecodableIsCorrupted ==
    /\ (PredictRan /\ resp.image_val # NotRun
            /\ (~req.file.present \/ ~req.file.decodable))
       => (resp.image_val = CorruptedMessage /\ resp.image_val # ValidationOk)
    /\ (PredictRan /\ ~DummyMode /\ AllowedType /\ ~req.file.decodable)
       => (resp.status = 415 /\ resp.body = "detail"
            /\ resp.detail = CorruptedMessage)

C5_Witness ==
    /\ PredictRan /\ ~DummyMode /\ AllowedType /\ ~req.file.decodable
    /\ resp.status = 415
    /\ resp.detail = CorruptedMessage

\* C6: a decodable image whose width and height are both within 256..1024,
\* bounds included, is given the success verdict.
C6_WithinBoundsValid ==
    (ValidatedImage
        /\ req.file.width >= 256 /\ req.file.width <= 1024
        /\ req.file.height >= 256 /\ req.file.height <= 1024)
    => resp.image_val = ValidationOk

C6_Witness ==
    /\ ValidatedImage
    /\ req.file.width = 256 /\ req.file.height = 1024
    /\ resp.image_val = ValidationOk

\* C7: on a decodable image the verdict is oversize exactly when width > 1024
\* and height > 1024, otherwise undersize exactly when width < 256 or
\* height < 256, otherwise success; exactly one of the three.
C7_VerdictOrder ==
    ValidatedImage =>
        LET over == req.file.width > 1024 /\ req.file.height > 1024
            under == req.file.width < 256 \/ req.file.height < 256
        IN  /\ resp.image_val \in {OversizeMessage, UndersizeMessage, ValidationOk}
            /\ Cardinality({OversizeMessage, UndersizeMessage, ValidationOk}) = 3
            /\ (resp.image_val = OversizeMessage) <=> over
            /\ (resp.image_val = UndersizeMessage) <=> (~over /\ under)
            /\ (resp.image_val = ValidationOk) <=> (~over /\ ~under)

C7_Witness ==
    /\ ValidatedImage
    /\ req.file.width > 1024 /\ req.file.height < 256
    /\ resp.image_val = UndersizeMessage

\* C8: every request, whatever its outcome, is answered with a response that
\* carries the Server-Timing header.
C8_TimingHeaderAlways ==
    resp # NoResponse => "Server-Timing" \in resp.headers

\* C9: when the store is unreachable as the startup hook runs, startup fails
\* and stays failed with no second attempt, and a request is handled only
\* after the rate limiter was initialised.
C9_StartupFailureFatal ==
    [][ /\ (phase = "starting" /\ startups' # startups /\ ~redisReachable)
            => (phase' = "failed" /\ ~limiterInit')
        /\ phase = "failed"
            => (phase' = "failed" /\ startups' = startups /\ ~limiterInit'
                  /\ req' = NoRequest /\ resp' = NoResponse)
        /\ startups' <= 1
        /\ req' # NoRequest => (limiterInit' /\ phase' = "serving")
      ]_vars

C9_Witness ==
    /\ phase = "failed"
    /\ startups = 1
    /\ redisReachable

\* C10: whenever the validator returns success, the image's width and height
\* are at most the max_width and max_height GET /specs reports and at least
\* 256.
C10_AcceptedWithinAdvertised ==
    (PredictRan /\ resp.image_val = ValidationOk) =>
        /\ req.file.width <= specs.max_width
        /\ req.file.height <= specs.max_height
        /\ req.file.width >= 256
        /\ req.file.height >= 256

====
